---------------------------- MODULE Spec2Model ----------------------------
(***************************************************************************)
(* A model of grpcGen (src/grpcGen.go): the annotation-driven extraction   *)
(* of records and procedures from a parsed Go file, the translation of Go  *)
(* field types into proto3 types, the rendering of the .proto document,    *)
(* the protoc call and the rewrite of the source file.                     *)
(*                                                                         *)
(* Go strings are TLA+ strings; the string functions of the Go library     *)
(* that the program calls are operators that work character by character. *)
(***************************************************************************)
EXTENDS Integers, Sequences, FiniteSets, TLC

(***************************************************************************)
(* Bounds of the model.                                                    *)
(***************************************************************************)
\* nesting depth of the Go field types fed to the type translator
MaxDepth == 2
\* number of top-level declarations of an input file
MaxDecls == 3

(***************************************************************************)
(* The annotation symbols (const block of grpcGen.go).                     *)
(***************************************************************************)
msgSymbol == "@grpcGen:Message"
srvSymbol == "@grpcGen:Service"
srvNameSymbol == "@grpcGen:SrvName:"
srvParamSymbol == "*pb."
srvRetSymbol == "*pb."

(***************************************************************************)
(* package strings                                                         *)
(***************************************************************************)
\* the character of s at position k (1-based), as a string of length 1
Char(s, k) == SubSeq(s, k, k)

HasPrefix(s, p) == Len(s) >= Len(p) /\ SubSeq(s, 1, Len(p)) = p

HasSuffix(s, p) == Len(s) >= Len(p) /\ SubSeq(s, Len(s) - Len(p) + 1, Len(s)) = p

TrimPrefix(s, p) == IF HasPrefix(s, p) THEN SubSeq(s, Len(p) + 1, Len(s)) ELSE s

TrimSuffix(s, p) == IF HasSuffix(s, p) THEN SubSeq(s, 1, Len(s) - Len(p)) ELSE s

\* the 1-based position of the first occurrence of sub in s, 0 when there is none
Index(s, sub) ==
    LET hits == {k \in 1..(Len(s) - Len(sub) + 1) : SubSeq(s, k, k + Len(sub) - 1) = sub}
    IN  IF hits = {} THEN 0 ELSE CHOOSE k \in hits : \A h \in hits : k <= h

\* the 1-based position of the last occurrence of sub in s, 0 when there is none
LastIndex(s, sub) ==
    LET hits == {k \in 1..(Len(s) - Len(sub) + 1) : SubSeq(s, k, k + Len(sub) - 1) = sub}
    IN  IF hits = {} THEN 0 ELSE CHOOSE k \in hits : \A h \in hits : k >= h

Contains(s, sub) == Index(s, sub) # 0

\* strings.Replace(s, old, new, -1) for a non-empty old: every non-overlapping
\* occurrence, leftmost first
RECURSIVE Replace(_, _, _)
Replace(s, old, new) ==
    LET k == Index(s, old)
    IN  IF k = 0 THEN s
        ELSE SubSeq(s, 1, k - 1) \o new
             \o Replace(SubSeq(s, k + Len(old), Len(s)), old, new)

\* the number of non-overlapping occurrences of sub in s (strings.Count)
RECURSIVE Count(_, _)
Count(s, sub) ==
    LET k == Index(s, sub)
    IN  IF k = 0 THEN 0 ELSE 1 + Count(SubSeq(s, k + Len(sub), Len(s)), sub)

IsSpace(c) == c \in {" ", "\t", "\n", "\r"}

\* strings.Fields: the maximal runs of non-space characters
RECURSIVE Fields(_)
Fields(s) ==
    IF Len(s) = 0 THEN <<>>
    ELSE IF IsSpace(Char(s, 1)) THEN Fields(SubSeq(s, 2, Len(s)))
    ELSE LET stops == {k \in 1..Len(s) : IsSpace(Char(s, k))}
             stop == IF stops = {} THEN Len(s) + 1
                     ELSE CHOOSE k \in stops : \A h \in stops : k <= h
         IN  <<SubSeq(s, 1, stop - 1)>> \o Fields(SubSeq(s, stop, Len(s)))

\* strings.Trim(s, " ")
RECURSIVE TrimSpaces(_)
TrimSpaces(s) ==
    IF Len(s) = 0 THEN s
    ELSE IF Char(s, 1) = " " THEN TrimSpaces(SubSeq(s, 2, Len(s)))
    ELSE IF Char(s, Len(s)) = " " THEN TrimSpaces(SubSeq(s, 1, Len(s) - 1))
    ELSE s

(***************************************************************************)
(* correctTypes: the translation of one member's Go type, and of a whole   *)
(* message map.  A run-time panic of the Go code is the outcome "panic".   *)
(***************************************************************************)
\* the strings.Map call of the map branch: '[', ']' and '*' become ' '
RECURSIVE mapRunes(_)
mapRunes(t) ==
    IF Len(t) = 0 THEN t
    ELSE (IF Char(t, 1) \in {"[", "]", "*"} THEN " " ELSE Char(t, 1))
         \o mapRunes(SubSeq(t, 2, Len(t)))

\* a variant of firstRule whose slice branch also translates the element type
firstRuleUnwrap(t) ==
    IF t = "int" THEN [panic |-> FALSE, Type |-> "int32"]
    ELSE IF t = "uint" THEN [panic |-> FALSE, Type |-> "uint32"]
    ELSE IF t = "[]byte" THEN [panic |-> FALSE, Type |-> "bytes"]
    ELSE IF HasPrefix(t, "[]")
         THEN LET e == TrimPrefix(t, "[]")
              IN  [panic |-> FALSE,
                   Type |-> "repeated " \o (IF e = "int" THEN "int32"
                                            ELSE IF e = "uint" THEN "uint32"
                                            ELSE TrimPrefix(e, "[]"))]
    ELSE IF HasPrefix(t, "map")
         THEN LET ts == Fields(mapRunes(TrimPrefix(t, "map")))
              IN  IF Len(ts) < 2 THEN [panic |-> TRUE, Type |-> t]
                  ELSE [panic |-> FALSE,
                        Type |-> "map<" \o ts[1] \o ", " \o ts[2] \o ">"]
    ELSE [panic |-> FALSE, Type |-> t]

\* the if / else-if chain of the loop body; ts[0], ts[1] of the map branch
\* panic (index out of range) when the text after "map" has fewer than two fields
firstRule(t) ==
    IF t = "int" THEN [panic |-> FALSE, Type |-> "int32"]
    ELSE IF t = "uint" THEN [panic |-> FALSE, Type |-> "uint32"]
    ELSE IF t = "[]byte" THEN [panic |-> FALSE, Type |-> "bytes"]
    ELSE IF HasPrefix(t, "[]")
         THEN [panic |-> FALSE, Type |-> "repeated " \o TrimPrefix(t, "[]")]
    ELSE IF HasPrefix(t, "map")
         THEN LET ts == Fields(mapRunes(TrimPrefix(t, "map")))
              IN  IF Len(ts) < 2 THEN [panic |-> TRUE, Type |-> t]
                  ELSE [panic |-> FALSE,
                        Type |-> "map<" \o ts[1] \o ", " \o ts[2] \o ">"]
    ELSE [panic |-> FALSE, Type |-> t]

\* the two unconditional replacements that follow the chain
anyValue(t) ==
    IF Contains(t, "interface{}")
    THEN Replace(t, "interface{}", "google.protobuf.Value")
    ELSE t

stripStars(t) == IF Contains(t, "*") THEN Replace(t, "*", "") ELSE t

\* one iteration of the inner loop of correctTypes
correctMember(t) ==
    LET r == firstRule(t)
    IN  IF r.panic THEN r
        ELSE [panic |-> FALSE, Type |-> stripStars(anyValue(r.Type))]

\* correctTypes on a message map (name -> members): every member's type is
\* rewritten in place; a panic in any iteration ends the process
correctTypes(m) ==
    LET bad == \E n \in DOMAIN m : \E k \in 1..Len(m[n]) : correctMember(m[n][k].Type).panic
    IN  [panic |-> bad,
         msgs  |-> IF bad THEN m
                   ELSE [n \in DOMAIN m |->
                           [k \in 1..Len(m[n]) |->
                              [Name |-> m[n][k].Name,
                               Type |-> correctMember(m[n][k].Type).Type]]]]


(***************************************************************************)
(* The parsed file (go/ast).  A declaration is a record                    *)
(*   kind       "gen" (an ast.GenDecl) or "func" (an ast.FuncDecl)       *)
(*   doc        the texts of Doc.List; <<>> stands for Doc == nil          *)
(*   name       FuncDecl.Name.Name                                         *)
(*   specs      GenDecl.Specs: isType (an ast.TypeSpec) , name, isStruct   *)
(*              (Type is an ast.StructType) , fields (Fields.List: the     *)
(*              names of an entry and types.ExprString of its type)        *)
(*   params     types.ExprString of each entry of Type.Params.List         *)
(*   hasResults Type.Results != nil;  results: as params                   *)
(*   src        the lines of the source text of the declaration            *)
(* go/parser gives a file parsed without error only GenDecl and FuncDecl   *)
(* nodes, a Doc that is nil or has at least one comment, and a non-nil     *)
(* Params and TypeSpec.Name.                                               *)
(***************************************************************************)
GenDecl(doc, specs, src) ==
    [kind |-> "gen", doc |-> doc, name |-> "", specs |-> specs,
     params |-> <<>>, hasResults |-> FALSE, results |-> <<>>, src |-> src]

FuncDecl(doc, name, params, hasResults, results, src) ==
    [kind |-> "func", doc |-> doc, name |-> name, specs |-> <<>>,
     params |-> params, hasResults |-> hasResults, results |-> results, src |-> src]

StructSpec(name, fields) ==
    [isType |-> TRUE, name |-> name, isStruct |-> TRUE, fields |-> fields]

Field(names, type) == [names |-> names, type |-> type]

\* the record of TestFetchMsg
DeclReply ==
    GenDecl(<<"// @grpcGen:Message">>,
            <<StructSpec("Reply", <<Field(<<"Name">>, "string"),
                                    Field(<<"Email">>, "string"),
                                    Field(<<"Counter">>, "int32")>>)>>,
            <<"// @grpcGen:Message", "type Reply struct {", "\tName    string",
              "\tEmail   string", "\tCounter int32", "}">>)

\* two names on one type entry, and the types the translator rewrites
DeclRequest ==
    GenDecl(<<"// Request is the input", "// @grpcGen:Message">>,
            <<StructSpec("Request", <<Field(<<"A", "B">>, "string"),
                                      Field(<<"Any">>, "interface{}"),
                                      Field(<<"Tags">>, "[]*Bar")>>)>>,
            <<"// Request is the input", "// @grpcGen:Message",
              "type Request struct {", "\tA, B string", "\tAny  interface{}",
              "\tTags []*Bar", "}">>)

\* a documented struct without the marker
DeclPlain ==
    GenDecl(<<"// Plain stays a Go type">>,
            <<StructSpec("Plain", <<Field(<<"X">>, "int")>>)>>,
            <<"// Plain stays a Go type", "type Plain struct {", "\tX int", "}">>)

\* marked, a type, but no struct
DeclID ==
    GenDecl(<<"// @grpcGen:Message">>,
            <<[isType |-> TRUE, name |-> "ID", isStruct |-> FALSE, fields |-> <<>>]>>,
            <<"// @grpcGen:Message", "type ID int">>)

\* marked, but a var declaration (an ast.ValueSpec)
DeclVersion ==
    GenDecl(<<"// @grpcGen:Message">>,
            <<[isType |-> FALSE, name |-> "Version", isStruct |-> FALSE, fields |-> <<>>]>>,
            <<"// @grpcGen:Message", "var Version = 1">>)

\* an import declaration: no documentation
DeclImport ==
    GenDecl(<<>>,
            <<[isType |-> FALSE, name |-> "", isStruct |-> FALSE, fields |-> <<>>]>>,
            <<"import \"context\"">>)

\* the first function of TestFetchSrv
DeclSayHello ==
    FuncDecl(<<"// @grpcGen:Service", "// @grpcGen:SrvName: Greeting">>, "SayHello",
             <<"context.Context", "*pb.Request">>, TRUE, <<"*pb.Reply", "error">>,
             <<"// @grpcGen:Service", "// @grpcGen:SrvName: Greeting",
               "func (q *server) SayHello(ctx context.Context, in *pb.Request) (out *pb.Reply, err error) {",
               "\treturn &pb.Reply{Message: \"Hello \" + in.Name}, nil", "}">>)

\* same group, the markers in the other order and without the blank, and
\* several cross-boundary parameters and results
DeclSayYa ==
    FuncDecl(<<"//@grpcGen:SrvName: Greeting", "// @grpcGen:Service">>, "SayYa",
             <<"*pb.Request", "*pb.Extra", "[]*pb.Item">>, TRUE,
             <<"*pb.Reply", "*pb.Status", "error">>,
             <<"//@grpcGen:SrvName: Greeting", "// @grpcGen:Service",
               "func (q *server) SayYa(in *pb.Request, ex *pb.Extra, it []*pb.Item) (r *pb.Reply, s *pb.Status, err error) {",
               "\treturn nil, nil, nil", "}">>)

\* another group
DeclPing ==
    FuncDecl(<<"// @grpcGen:Service", "// @grpcGen:SrvName: Health">>, "Ping",
             <<"*pb.Request">>, TRUE, <<"*pb.Reply">>,
             <<"// @grpcGen:Service", "// @grpcGen:SrvName: Health",
               "func Ping(in *pb.Request) *pb.Reply {", "\treturn nil", "}">>)

\* only the procedure marker
DeclOnlyService ==
    FuncDecl(<<"// @grpcGen:Service">>, "Lonely",
             <<"*pb.Request">>, TRUE, <<"*pb.Reply">>,
             <<"// @grpcGen:Service", "func Lonely(in *pb.Request) *pb.Reply {",
               "\treturn nil", "}">>)

\* only the group-name marker
DeclOnlyName ==
    FuncDecl(<<"// @grpcGen:SrvName: Greeting">>, "Nameless",
             <<"*pb.Request">>, TRUE, <<"*pb.Reply">>,
             <<"// @grpcGen:SrvName: Greeting", "func Nameless(in *pb.Request) *pb.Reply {",
               "\treturn nil", "}">>)

\* only the procedure marker, and no result list
DeclNotify ==
    FuncDecl(<<"// @grpcGen:Service">>, "Notify",
             <<"*pb.Request">>, FALSE, <<>>,
             <<"// @grpcGen:Service", "func Notify(in *pb.Request) {", "}">>)

DeclPool ==
    {DeclReply, DeclRequest, DeclPlain, DeclID, DeclVersion, DeclImport,
     DeclSayHello, DeclSayYa, DeclPing, DeclOnlyService, DeclOnlyName,
     DeclNotify}

\* the declaration lists of the input files
Files == UNION {[1..n -> DeclPool] : n \in 0..MaxDecls}

PackageName == "grpc_test"

\* the lines of the file that holds the declarations ds
RECURSIVE declLines(_)
declLines(ds) ==
    IF ds = <<>> THEN <<>> ELSE Head(ds).src \o declLines(Tail(ds))

SourceLines(ds) == <<"package " \o PackageName>> \o declLines(ds)

(***************************************************************************)
(* fetchMsg.  The result is outcome "ok" with the Msg, "absent" (nil, nil),*)
(* "error" (nil, err) or "panic".                                          *)
(***************************************************************************)
NoMsg == [Name |-> "", Members |-> <<>>]

\* the loop over s.Names assigns every name to the one member of the entry,
\* which is appended once after the loop
fieldMember(s) ==
    [Name |-> IF s.names = <<>> THEN "" ELSE s.names[Len(s.names)],
     Type |-> s.type]

structMembers(fields) == [k \in 1..Len(fields) |-> fieldMember(fields[k])]

\* the loop over genDecl.Specs
RECURSIVE walkSpecs(_, _)
walkSpecs(specs, msg) ==
    IF specs = <<>> THEN [outcome |-> "ok", msg |-> msg]
    ELSE LET s == Head(specs)
         IN  IF ~s.isType THEN [outcome |-> "error", msg |-> NoMsg]
             \* the type assertion to ast.StructType has no ok form
             ELSE IF ~s.isStruct THEN [outcome |-> "panic", msg |-> NoMsg]
             ELSE walkSpecs(Tail(specs),
                            [Name |-> s.name,
                             Members |-> msg.Members \o structMembers(s.fields)])

fetchMsg(genDecl) ==
    IF genDecl.doc = <<>> THEN [outcome |-> "error", msg |-> NoMsg]
    ELSE IF \E k \in 1..Len(genDecl.doc) : Contains(genDecl.doc[k], msgSymbol)
         THEN walkSpecs(genDecl.specs, NoMsg)
    ELSE [outcome |-> "absent", msg |-> NoMsg]

(***************************************************************************)
(* fetchSrv.  The result is outcome "ok" with the Srv, "absent", "error"   *)
(* or "panic".                                                             *)
(***************************************************************************)
NoFunc == [Name |-> "", In |-> "", Out |-> ""]

\* a variant of pickType that keeps the first entry that matches
RECURSIVE pickFirstType(_, _)
pickFirstType(types, cur) ==
    IF types = <<>> THEN cur
    ELSE IF Contains(Head(types), srvParamSymbol)
         THEN TrimPrefix(Head(types), srvParamSymbol)
    ELSE pickFirstType(Tail(types), cur)

\* the loop over a parameter or result list: every entry whose type text
\* contains the symbol assigns the field, so the last one stays
RECURSIVE pickType(_, _)
pickType(types, cur) ==
    IF types = <<>> THEN cur
    ELSE pickType(Tail(types),
                  IF Contains(Head(types), srvParamSymbol)
                  THEN TrimPrefix(Head(types), srvParamSymbol)
                  ELSE cur)

srvFunc(funcDecl) ==
    [Name |-> funcDecl.name,
     In   |-> pickType(funcDecl.params, ""),
     Out  |-> pickType(funcDecl.results, "")]

srvNameOf(text) ==
    TrimSpaces(TrimPrefix(TrimPrefix(text, "// " \o srvNameSymbol),
                          "//" \o srvNameSymbol))

\* the loop over funcDecl.Doc.List from comment k on; st holds foundSrv,
\* foundSrvName and the Srv built so far
RECURSIVE scanSrvDoc(_, _, _)
scanSrvDoc(funcDecl, k, st) ==
    IF k > Len(funcDecl.doc) \/ (st.foundSrv /\ st.foundSrvName) THEN st
    ELSE LET text == funcDecl.doc[k]
         IN  IF Contains(text, srvSymbol)
             THEN IF ~funcDecl.hasResults
                  \* funcDecl.Type.Results.List with Results == nil
                  THEN [st EXCEPT !.panic = TRUE]
                  ELSE scanSrvDoc(funcDecl, k + 1,
                                  [st EXCEPT !.foundSrv = TRUE,
                                             !.Funcs = srvFunc(funcDecl)])
             ELSE IF Contains(text, srvNameSymbol)
             THEN scanSrvDoc(funcDecl, k + 1,
                             [st EXCEPT !.foundSrvName = TRUE,
                                        !.Name = IF st.Name = "" THEN srvNameOf(text)
                                                 ELSE st.Name])
             ELSE scanSrvDoc(funcDecl, k + 1, st)

NoSrv == [Name |-> "", Funcs |-> NoFunc]

fetchSrv(funcDecl) ==
    IF funcDecl.doc = <<>> THEN [outcome |-> "error", srv |-> NoSrv]
    ELSE LET st == scanSrvDoc(funcDecl, 1,
                              [foundSrv |-> FALSE, foundSrvName |-> FALSE,
                               panic |-> FALSE, Name |-> "", Funcs |-> NoFunc])
         IN  IF st.panic THEN [outcome |-> "panic", srv |-> NoSrv]
             ELSE IF st.foundSrv /\ st.foundSrvName
             THEN [outcome |-> "ok", srv |-> [Name |-> st.Name, Funcs |-> st.Funcs]]
             ELSE [outcome |-> "absent", srv |-> NoSrv]

(***************************************************************************)
(* Paths: getOutPath and the path/filepath calls it makes, for slash-      *)
(* separated paths without "." or ".." elements.                           *)
(***************************************************************************)
\* the working directory of the process
Cwd == "/work"

\* the second result of filepath.Split: the text after the last separator
fileOf(path) == SubSeq(path, LastIndex(path, "/") + 1, Len(path))

\* filepath.Dir
dirOf(path) ==
    LET k == LastIndex(path, "/")
    IN  IF k = 0 THEN "." ELSE IF k = 1 THEN "/" ELSE SubSeq(path, 1, k - 1)

\* filepath.Abs of a directory
absOf(dir) ==
    IF HasPrefix(dir, "/") THEN dir
    ELSE IF dir = "." THEN Cwd
    ELSE Cwd \o "/" \o dir

getOutPath(path) ==
    IF ~HasSuffix(path, ".go") THEN [err |-> TRUE, path |-> ""]
    ELSE [err |-> FALSE,
          path |-> absOf(dirOf(path)) \o "/pb/"
                   \o fileOf(TrimSuffix(path, ".go")) \o ".go.proto"]

\* the input paths of the command line
InPaths == {"/go/src/app/greet.go", "/go/src/app/greet.proto", ""}

(***************************************************************************)
(* The template of getTemplateText, executed by text/template on an        *)
(* OutTemplatData: a range over a map visits the keys in sorted order.     *)
(***************************************************************************)
\* the characters of the map keys (Go identifiers) in byte order
AsciiOrder ==
    "0123456789ABCDEFGHIJKLMNOPQRSTUVWXYZ_abcdefghijklmnopqrstuvwxyz"

RECURSIVE StrLess(_, _)
StrLess(a, b) ==
    IF Len(a) = 0 THEN Len(b) # 0
    ELSE IF Len(b) = 0 THEN FALSE
    ELSE IF Char(a, 1) = Char(b, 1)
         THEN StrLess(SubSeq(a, 2, Len(a)), SubSeq(b, 2, Len(b)))
    ELSE Index(AsciiOrder, Char(a, 1)) < Index(AsciiOrder, Char(b, 1))

RECURSIVE SortedKeys(_)
SortedKeys(S) ==
    IF S = {} THEN <<>>
    ELSE LET m == CHOOSE x \in S : \A y \in S \ {x} : StrLess(x, y)
         IN  <<m>> \o SortedKeys(S \ {m})

importLine == "import \"google/protobuf/struct.proto\";"

\* a variant of templateHeader without the import statement
templateHeaderBare(packageName) ==
    "//\n// Generated by grpcGen -- DO NOT EDIT\n//\nsyntax = \"proto3\";\n\npackage "
    \o packageName \o "_pb;\n\n"

\* the text before the first action of the template
templateHeader(packageName) ==
    "//\n// Generated by grpcGen -- DO NOT EDIT\n//\nsyntax = \"proto3\";\n\npackage "
    \o packageName \o "_pb;\n\n" \o importLine \o "\n"

\* a variant of add that drops its second argument
addNothing(x, y) == x

\* the template function "add"
add(x, y) == x + y

\* one pass of the inner range of a message block; index counts from 0
memberLine(member, index) ==
    "\n  " \o member.Type \o " " \o member.Name \o " = "
    \o ToString(add(index, 1)) \o ";\n  "

RECURSIVE memberLines(_, _)
memberLines(members, index) ==
    IF index >= Len(members) THEN ""
    ELSE memberLine(members[index + 1], index) \o memberLines(members, index + 1)

messageBlock(key, members) ==
    "\nmessage " \o key \o " {\n  " \o memberLines(members, 0) \o "\n}\n"

rpcLine(fun) ==
    "\n  rpc " \o fun.Name \o " (" \o fun.In \o ") returns (" \o fun.Out \o ") {}\n  "

RECURSIVE rpcLines(_)
rpcLines(funcs) ==
    IF funcs = <<>> THEN "" ELSE rpcLine(Head(funcs)) \o rpcLines(Tail(funcs))

serviceBlock(key, funcs) ==
    "\nservice " \o key \o " {\n  " \o rpcLines(funcs) \o "\n}\n"

RECURSIVE serviceBlocks(_, _)
serviceBlocks(keys, srvMap) ==
    IF keys = <<>> THEN ""
    ELSE serviceBlock(Head(keys), srvMap[Head(keys)])
         \o serviceBlocks(Tail(keys), srvMap)

RECURSIVE messageBlocks(_, _)
messageBlocks(keys, msgMap) ==
    IF keys = <<>> THEN ""
    ELSE messageBlock(Head(keys), msgMap[Head(keys)])
         \o messageBlocks(Tail(keys), msgMap)

\* outTmpl.Execute(outFile, outData)
executeTemplate(packageName, msgMap, srvMap) ==
    templateHeader(packageName)
    \o serviceBlocks(SortedKeys(DOMAIN srvMap), srvMap)
    \o "\n\n"
    \o messageBlocks(SortedKeys(DOMAIN msgMap), msgMap)

(***************************************************************************)
(* createProtoFile.  pre is what os.Stat finds: "nodir" (no pb directory), *)
(* "nofile" or "stale" (an earlier document); io is the outcome of the     *)
(* system calls: "ok", or the call that fails.  The result is the error    *)
(* flag and the document file: its state ("untouched", "absent",           *)
(* "partial" or "written") and its text.                                   *)
(***************************************************************************)
FsStates == {"nodir", "nofile", "stale"}

CreateOutcomes(pre) ==
    {"ok", "open", "execute"}
    \cup (IF pre = "nodir" THEN {"mkdir"} ELSE {})
    \cup (IF pre = "stale" THEN {"remove"} ELSE {})

NoDocument == [state |-> "untouched", text |-> ""]

createProtoFile(packageName, msgMap, srvMap, pre, io) ==
    IF io = "mkdir" \/ io = "remove" THEN [err |-> TRUE, file |-> NoDocument]
    ELSE IF io = "open" THEN [err |-> TRUE, file |-> [state |-> "absent", text |-> ""]]
    ELSE IF io = "execute" THEN [err |-> TRUE, file |-> [state |-> "partial", text |-> ""]]
    ELSE [err |-> FALSE,
          file |-> [state |-> "written",
                    text |-> executeTemplate(packageName, msgMap, srvMap)]]

(***************************************************************************)
(* outExampleOnSource and getExampleText, on the lines of the file.        *)
(***************************************************************************)
getExampleText(path) ==
    <<"import (",
      "\t\"golang.org/x/net/context\"",
      "\t\"google.golang.org/grpc\"",
      "\tpb \"" \o path \o "/pb\"",
      ")",
      "",
      "// @grpcGen:Message",
      "type Request struct {",
      "\tInEditMe1    string",
      "}",
      "",
      "// @grpcGen:Message",
      "type Reply struct {",
      "\tOutEditMe1    string",
      "}",
      "",
      "// @grpcGen:Service",
      "// @grpcGen:SrvName: EditMe",
      "func (q *server) FuncEditMe1(ctx context.Context, in *pb.Request) (out *pb.Reply, err error) {",
      "\treturn &pb.Reply{OutEditMe1: \"Hello \" + in.InEditMe1}, nil",
      "}",
      "",
      "// @grpcGen:Service",
      "//@grpcGen:SrvName: EditMe",
      "func (s *server) FuncEditMe2(ctx context.Context, in *pb.Request) (out *pb.Reply, err error) {",
      "\treturn &pb.Reply{OutEditMe1: \"Hey \" + in.InEditMe1}, nil",
      "}">>

\* strings.Split(dir, "/src/")[1], defined when dir contains "/src/"
afterSrc(dir) ==
    LET rest == SubSeq(dir, Index(dir, "/src/") + 5, Len(dir))
        k == Index(rest, "/src/")
    IN  IF k = 0 THEN rest ELSE SubSeq(rest, 1, k - 1)

\* io: "ok", "read" (ReadFile fails) or "write" (WriteFile fails).  The
\* result: the outcome ("ok", "error", "panic"), the lines of the file and
\* whether the file was written
outExampleOnSource(path, lines, io) ==
    IF path = "" \/ ~HasSuffix(path, ".go") \/ io = "read"
    THEN [outcome |-> "error", lines |-> lines, written |-> FALSE]
    ELSE LET dir == absOf(dirOf(path))
         IN  IF ~Contains(dir, "/src/")
             THEN [outcome |-> "panic", lines |-> lines, written |-> FALSE]
             \* a WriteFile error is returned as nil
             ELSE IF io = "write"
             THEN [outcome |-> "ok", lines |-> lines, written |-> FALSE]
             ELSE [outcome |-> "ok",
                   lines |-> lines \o getExampleText(afterSrc(dir)),
                   written |-> TRUE]

(***************************************************************************)
(* markMsgAsComment, on the lines of the file.                             *)
(***************************************************************************)
\* a variant of commentUntilBrace that prefixes every line, comments included
RECURSIVE commentEveryLine(_, _)
commentEveryLine(lines, j) ==
    IF j > Len(lines) THEN [panic |-> TRUE, lines |-> lines, j |-> j]
    ELSE LET line == "// " \o lines[j]
             next == [lines EXCEPT ![j] = line]
         IN  IF Contains(line, "}") THEN [panic |-> FALSE, lines |-> next, j |-> j]
             ELSE commentEveryLine(next, j + 1)

\* the inner loop from line j on: the result is the lines, the index of the
\* line that holds "}", and panic when j runs past the last line
RECURSIVE commentUntilBrace(_, _)
commentUntilBrace(lines, j) ==
    IF j > Len(lines) THEN [panic |-> TRUE, lines |-> lines, j |-> j]
    ELSE LET line == IF ~HasPrefix(lines[j], "//") THEN "// " \o lines[j]
                     ELSE lines[j]
             next == [lines EXCEPT ![j] = line]
         IN  IF Contains(line, "}") THEN [panic |-> FALSE, lines |-> next, j |-> j]
             ELSE commentUntilBrace(next, j + 1)

\* the outer loop from line i on
RECURSIVE commentMsgs(_, _)
commentMsgs(lines, i) ==
    IF i > Len(lines) THEN [panic |-> FALSE, lines |-> lines]
    ELSE IF Contains(lines[i], msgSymbol)
         THEN LET r == commentUntilBrace(lines, i + 1)
              IN  IF r.panic THEN [panic |-> TRUE, lines |-> lines]
                  ELSE commentMsgs(r.lines, r.j + 1)
    ELSE commentMsgs(lines, i + 1)

\* io: "ok", "read" or "write", as for outExampleOnSource
markMsgAsComment(path, lines, io) ==
    IF path = "" \/ io = "read"
    THEN [outcome |-> "error", lines |-> lines, written |-> FALSE]
    ELSE LET r == commentMsgs(lines, 1)
         IN  IF r.panic THEN [outcome |-> "panic", lines |-> lines, written |-> FALSE]
             \* a WriteFile error is returned as nil
             ELSE IF io = "write"
             THEN [outcome |-> "ok", lines |-> lines, written |-> FALSE]
             ELSE [outcome |-> "ok", lines |-> r.lines, written |-> TRUE]

\* callProtoc: ok is whether protoc exits with status 0
callProtoc(path, ok) ==
    IF ~HasSuffix(path, ".go.proto") THEN [err |-> TRUE, ran |-> FALSE]
    ELSE [err |-> ~ok, ran |-> TRUE]

(***************************************************************************)
(* The state of a run of main.                                             *)
(*   pc          the place in main: "start" (before the loop over          *)
(*               os.Args), the stage that runs next, "next" (the end of a  *)
(*               loop pass), "exit" (main returned), "fatal" (log.Fatal    *)
(*               ended the process) or "panic" (a run-time panic did)      *)
(*   inPath, outPath, f, msgs, srvs   the variables of the loop body       *)
(*   declIdx     the index (from 1) of the declaration the scan is at      *)
(*   log         the lines written by log.Println and log.Printf           *)
(*   fatal       the message of log.Fatal, "" when it was not called       *)
(*   crash       the expression that panicked, "" when none did            *)
(*   failed      the stage of the current input whose operation failed     *)
(*   protoFile   what createProtoFile did to the document of this input    *)
(*   protocCalls the number of protoc runs for this input                  *)
(*   source      the lines of the input file                               *)
(*   srcWrites   the number of times the input file was written            *)
(*   anySubst    whether correctTypes replaced an interface{}              *)
(* and of a call of correctTypes on a map with one field (tpc, tsrc the    *)
(* field's Go type, tmsgs the map).                                        *)
(***************************************************************************)
VARIABLES pc, inPath, outPath, f, declIdx, msgs, srvs, log, fatal, crash,
          failed, protoFile, protocCalls, source, srcWrites, anySubst,
          tpc, tsrc, tmsgs

vars == <<pc, inPath, outPath, f, declIdx, msgs, srvs, log, fatal, crash,
          failed, protoFile, protocCalls, source, srcWrites, anySubst,
          tpc, tsrc, tmsgs>>

tvars == <<tpc, tsrc, tmsgs>>

NilFile == [nil |-> TRUE, Name |-> "", Decls |-> <<>>]

\* make(map[string][]*MsgMember), make(map[string][]*SrvFunc)
EmptyMap == <<>>

Init ==
    /\ pc = "start"
    /\ inPath = ""
    /\ outPath = ""
    /\ f = NilFile
    /\ declIdx = 0
    /\ msgs = EmptyMap
    /\ srvs = EmptyMap
    /\ log = <<>>
    /\ fatal = ""
    /\ crash = ""
    /\ failed = ""
    /\ protoFile = NoDocument
    /\ protocCalls = 0
    /\ source = <<>>
    /\ srcWrites = 0
    /\ anySubst = FALSE
    /\ tpc = "off"
    /\ tsrc = ""
    /\ tmsgs = EmptyMap

\* msgs[msg.Name] = msg.Members
putMsg(m, msg) ==
    [n \in DOMAIN m \cup {msg.Name} |-> IF n = msg.Name THEN msg.Members ELSE m[n]]

\* a variant of addSrv that assigns instead of appending
setSrv(m, srv) ==
    [n \in DOMAIN m \cup {srv.Name} |-> IF n = srv.Name THEN <<srv.Funcs>> ELSE m[n]]

\* srvs[srv.Name] = append(srvs[srv.Name], srv.Funcs)
addSrv(m, srv) ==
    [n \in DOMAIN m \cup {srv.Name} |->
        IF n = srv.Name
        THEN (IF n \in DOMAIN m THEN m[n] ELSE <<>>) \o <<srv.Funcs>>
        ELSE m[n]]

\* whether the interface{} branch of correctTypes is taken for a member
usesAny(m) ==
    \E n \in DOMAIN m : \E k \in 1..Len(m[n]) :
        LET r == firstRule(m[n][k].Type)
        IN  ~r.panic /\ Contains(r.Type, "interface{}")

\* the next pass of the loop over os.Args[1:]
StartInput ==
    /\ pc \in {"start", "next"}
    /\ \E p \in InPaths : inPath' = p
    /\ pc' = "getOutPath"
    /\ outPath' = ""
    /\ f' = NilFile
    /\ declIdx' = 0
    /\ msgs' = EmptyMap
    /\ srvs' = EmptyMap
    /\ log' = <<>>
    /\ failed' = ""
    /\ protoFile' = NoDocument
    /\ protocCalls' = 0
    /\ source' = <<>>
    /\ srcWrites' = 0
    /\ anySubst' = FALSE
    /\ UNCHANGED <<fatal, crash, tvars>>

\* the loop is over
Exit ==
    /\ pc \in {"start", "next"}
    /\ pc' = "exit"
    /\ UNCHANGED <<inPath, outPath, f, declIdx, msgs, srvs, log, fatal, crash,
                   failed, protoFile, protocCalls, source, srcWrites, anySubst, tvars>>

GetOutPath ==
    /\ pc = "getOutPath"
    /\ LET r == getOutPath(inPath)
       IN  IF r.err
           THEN /\ pc' = "fatal"
                /\ fatal' = "path doesn't have .go extension"
                /\ failed' = "path"
                /\ outPath' = outPath
           ELSE /\ pc' = "parse"
                /\ outPath' = r.path
                /\ UNCHANGED <<fatal, failed>>
    /\ UNCHANGED <<inPath, f, declIdx, msgs, srvs, log, crash, protoFile,
                   protocCalls, source, srcWrites, anySubst, tvars>>

\* fetchAstFileFromPath returns the file: the scan starts, or, for a file
\* without declarations, the example is generated
ParseOk ==
    /\ pc = "parse"
    /\ \E ds \in Files :
          /\ f' = [nil |-> FALSE, Name |-> PackageName, Decls |-> ds]
          /\ source' = SourceLines(ds)
          /\ pc' = IF Len(ds) = 0 THEN "example" ELSE "scan"
    /\ declIdx' = 1
    /\ UNCHANGED <<inPath, outPath, msgs, srvs, log, fatal, crash, failed,
                   protoFile, protocCalls, srcWrites, anySubst, tvars>>

\* fetchAstFileFromPath returns (nil, err): the error is logged, and
\* f.Decls dereferences the nil file
ParseFail ==
    /\ pc = "parse"
    /\ log' = Append(log, "parse error")
    /\ failed' = "parse"
    /\ pc' = "panic"
    /\ crash' = "f.Decls"
    /\ UNCHANGED <<inPath, outPath, f, declIdx, msgs, srvs, fatal, protoFile,
                   protocCalls, source, srcWrites, anySubst, tvars>>

\* len(f.Decls) == 0: the results of createProtoFile and outExampleOnSource
\* are dropped, then log.Fatalln
GenerateExample ==
    /\ pc = "example"
    /\ \E pre \in FsStates : \E io \in CreateOutcomes(pre) : \E sio \in {"ok", "read", "write"} :
          LET c == createProtoFile(f.Name, msgs, srvs, pre, io)
              e == outExampleOnSource(inPath, source, sio)
          IN  /\ protoFile' = c.file
              /\ source' = e.lines
              /\ srcWrites' = IF e.written THEN srcWrites + 1 ELSE srcWrites
              /\ IF e.outcome = "panic"
                 THEN /\ pc' = "panic"
                      /\ crash' = "strings.Split(dir, \"/src/\")[1]"
                      /\ fatal' = fatal
                 ELSE /\ pc' = "fatal"
                      /\ fatal' = "no declaration exists, going to generate example"
                      /\ crash' = crash
    /\ failed' = "declarations"
    /\ UNCHANGED <<inPath, outPath, f, declIdx, msgs, srvs, log, protocCalls,
                   anySubst, tvars>>

\* one pass of the loop over f.Decls, for a GenDecl
ScanGenDecl ==
    /\ pc = "scan"
    /\ declIdx <= Len(f.Decls)
    /\ f.Decls[declIdx].kind = "gen"
    /\ LET genDecl == f.Decls[declIdx]
           r == fetchMsg(genDecl)
       IN  IF genDecl.doc = <<>>
           THEN UNCHANGED <<pc, msgs, log, crash>>
           ELSE /\ pc' = IF r.outcome = "panic" THEN "panic" ELSE pc
                /\ crash' = IF r.outcome = "panic" THEN "typeSpec.Type.(StructType)"
                            ELSE crash
                /\ msgs' = IF r.outcome = "ok" THEN putMsg(msgs, r.msg) ELSE msgs
                /\ log' = IF r.outcome = "error"
                          THEN Append(log, "decl[" \o ToString(declIdx - 1)
                                           \o "] fetchMsg fail")
                          ELSE log
    /\ declIdx' = declIdx + 1
    /\ UNCHANGED <<inPath, outPath, f, srvs, fatal, failed, protoFile,
                   protocCalls, source, srcWrites, anySubst, tvars>>

\* one pass of the loop over f.Decls, for a FuncDecl
ScanFuncDecl ==
    /\ pc = "scan"
    /\ declIdx <= Len(f.Decls)
    /\ f.Decls[declIdx].kind = "func"
    /\ LET funcDecl == f.Decls[declIdx]
           r == fetchSrv(funcDecl)
       IN  IF funcDecl.doc = <<>>
           THEN UNCHANGED <<pc, srvs, log, crash>>
           ELSE /\ pc' = IF r.outcome = "panic" THEN "panic" ELSE pc
                /\ crash' = IF r.outcome = "panic" THEN "funcDecl.Type.Results.List"
                            ELSE crash
                /\ srvs' = IF r.outcome = "ok" THEN addSrv(srvs, r.srv) ELSE srvs
                /\ log' = IF r.outcome = "error"
                          THEN Append(log, "decl[" \o ToString(declIdx - 1)
                                           \o "] fetchSrv fail")
                          ELSE log
    /\ declIdx' = declIdx + 1
    /\ UNCHANGED <<inPath, outPath, f, msgs, fatal, failed, protoFile,
                   protocCalls, source, srcWrites, anySubst, tvars>>

\* len(msgs) == 0 after the scan
CheckMsgs ==
    /\ pc = "scan"
    /\ declIdx > Len(f.Decls)
    /\ IF DOMAIN msgs = {}
       THEN /\ pc' = "fatal"
            /\ fatal' = msgSymbol \o " symbol cannot be found"
            /\ failed' = "records"
       ELSE /\ pc' = "checkSrvs"
            /\ UNCHANGED <<fatal, failed>>
    /\ UNCHANGED <<inPath, outPath, f, declIdx, msgs, srvs, log, crash, protoFile,
                   protocCalls, source, srcWrites, anySubst, tvars>>

\* len(srvs) == 0 after the scan
CheckSrvs ==
    /\ pc = "checkSrvs"
    /\ IF DOMAIN srvs = {}
       THEN /\ pc' = "fatal"
            /\ fatal' = srvSymbol \o " symbol cannot be found"
            /\ failed' = "procedures"
       ELSE /\ pc' = "correctTypes"
            /\ UNCHANGED <<fatal, failed>>
    /\ UNCHANGED <<inPath, outPath, f, declIdx, msgs, srvs, log, crash, protoFile,
                   protocCalls, source, srcWrites, anySubst, tvars>>

\* correctTypes(msgs); msgs is never nil here, so it returns no error
CorrectTypes ==
    /\ pc = "correctTypes"
    /\ LET r == correctTypes(msgs)
       IN  IF r.panic
           THEN /\ pc' = "panic"
                /\ crash' = "ts[1]"
                /\ UNCHANGED <<msgs, anySubst>>
           ELSE /\ pc' = "createProtoFile"
                /\ msgs' = r.msgs
                /\ anySubst' = usesAny(msgs)
                /\ crash' = crash
    /\ UNCHANGED <<inPath, outPath, f, declIdx, srvs, log, fatal, failed, protoFile,
                   protocCalls, source, srcWrites, tvars>>

CreateProtoFile ==
    /\ pc = "createProtoFile"
    /\ \E pre \in FsStates : \E io \in CreateOutcomes(pre) :
          LET c == createProtoFile(f.Name, msgs, srvs, pre, io)
          IN  /\ protoFile' = c.file
              /\ IF c.err
                 THEN /\ pc' = "fatal"
                      /\ fatal' = "createProtoFile: " \o io
                      /\ failed' = "document"
                 ELSE /\ pc' = "callProtoc"
                      /\ UNCHANGED <<fatal, failed>>
    /\ UNCHANGED <<inPath, outPath, f, declIdx, msgs, srvs, log, crash,
                   protocCalls, source, srcWrites, anySubst, tvars>>

CallProtoc ==
    /\ pc = "callProtoc"
    /\ \E ok \in BOOLEAN :
          LET r == callProtoc(outPath, ok)
          IN  /\ protocCalls' = IF r.ran THEN protocCalls + 1 ELSE protocCalls
              /\ IF r.err
                 THEN /\ pc' = "fatal"
                      /\ fatal' = "protoc: stderr"
                      /\ failed' = "compiler"
                 ELSE /\ pc' = "markMsgAsComment"
                      /\ UNCHANGED <<fatal, failed>>
    /\ UNCHANGED <<inPath, outPath, f, declIdx, msgs, srvs, log, crash,
                   protoFile, source, srcWrites, anySubst, tvars>>

\* markMsgAsComment(inPath): a read error is returned and is fatal, a write
\* error is returned as nil and the loop goes on
MarkMsgAsComment ==
    /\ pc = "markMsgAsComment"
    /\ \E io \in {"ok", "read", "write"} :
          LET r == markMsgAsComment(inPath, source, io)
          IN  /\ source' = r.lines
              /\ srcWrites' = IF r.written THEN srcWrites + 1 ELSE srcWrites
              /\ failed' = IF io = "read" \/ (io = "write" /\ r.outcome = "ok")
                           THEN "rewrite" ELSE failed
              /\ pc' = IF r.outcome = "panic" THEN "panic"
                       ELSE IF r.outcome = "error" THEN "fatal"
                       ELSE "next"
              /\ fatal' = IF r.outcome = "error" THEN "markMsgAsComment: read"
                          ELSE fatal
              /\ crash' = IF r.outcome = "panic" THEN "lines[j]" ELSE crash
    /\ UNCHANGED <<inPath, outPath, f, declIdx, msgs, srvs, log, protoFile,
                   protocCalls, anySubst, tvars>>

Next ==
    \/ StartInput
    \/ Exit
    \/ GetOutPath
    \/ ParseOk
    \/ ParseFail
    \/ GenerateExample
    \/ ScanGenDecl
    \/ ScanFuncDecl
    \/ CheckMsgs
    \/ CheckSrvs
    \/ CorrectTypes
    \/ CreateProtoFile
    \/ CallProtoc
    \/ MarkMsgAsComment

Spec == Init /\ [][Next]_vars

(***************************************************************************)
(* correctTypes called on a map with one message of one field, for every   *)
(* Go type up to a nesting depth.                                          *)
(***************************************************************************)
BaseTypes == {"int", "uint", "byte", "string", "Bar", "mapper", "interface{}"}

KeyTypes == {"string", "int"}

\* what types.ExprString prints for the type expressions of depth <= d
RECURSIVE GoTypes(_)
GoTypes(d) ==
    IF d = 0 THEN BaseTypes
    ELSE LET S == GoTypes(d - 1)
         IN  BaseTypes \cup {"[]" \o t : t \in S} \cup {"*" \o t : t \in S}
             \cup {"map[" \o k \o "]" \o t : k \in KeyTypes, t \in S}

InitTypes ==
    /\ pc = "off"
    /\ inPath = ""
    /\ outPath = ""
    /\ f = NilFile
    /\ declIdx = 0
    /\ msgs = EmptyMap
    /\ srvs = EmptyMap
    /\ log = <<>>
    /\ fatal = ""
    /\ crash = ""
    /\ failed = ""
    /\ protoFile = NoDocument
    /\ protocCalls = 0
    /\ source = <<>>
    /\ srcWrites = 0
    /\ anySubst = FALSE
    /\ tpc = "call"
    /\ tsrc \in GoTypes(MaxDepth)
    /\ tmsgs = [n \in {"Test"} |-> <<[Name |-> "Field", Type |-> tsrc]>>]

\* the call correctTypes(tmsgs), which rewrites the map in place
CallCorrectTypes ==
    /\ tpc = "call"
    /\ LET r == correctTypes(tmsgs)
       IN  /\ tpc' = IF r.panic THEN "panic" ELSE "returned"
           /\ tmsgs' = r.msgs
    /\ UNCHANGED <<pc, inPath, outPath, f, declIdx, msgs, srvs, log, fatal, crash,
                   failed, protoFile, protocCalls, source, srcWrites, anySubst, tsrc>>

NextTypes == CallCorrectTypes

SpecTypes == InitTypes /\ [][NextTypes]_vars

(***************************************************************************)
(* Properties of the type translator, under SpecTypes.                     *)
(***************************************************************************)
\* the type of the one field after the call
tout == tmsgs["Test"][1].Type

\* the type matches none of the rules of correctTypes
MatchesNoRule(t) ==
    /\ t \notin {"int", "uint", "[]byte"}
    /\ ~HasPrefix(t, "[]")
    /\ ~HasPrefix(t, "map")
    /\ ~Contains(t, "interface{}")
    /\ ~Contains(t, "*")

\* C1: the translator returns a schema type for every source type, without
\* crashing, and a type that matches none of its rules comes back unchanged.
C1_TranslatorTotal ==
    tpc # "call" =>
        /\ tpc = "returned"
        /\ MatchesNoRule(tsrc) => tout = tsrc

\* a slice type other than []byte
IsSlice(t) == HasPrefix(t, "[]") /\ t # "[]byte"

elemOf(t) == SubSeq(t, 3, Len(t))

\* C2 as claimed: []T other than []byte becomes "repeated T" with the text of
\* T unchanged.
C2_RepeatedVerbatim ==
    (tpc = "returned" /\ IsSlice(tsrc)) => tout = "repeated " \o elemOf(tsrc)

\* C2 as amended: []T other than []byte becomes "repeated " followed by T in
\* which every interface{} is replaced by google.protobuf.Value and every *
\* is removed; nothing else of T is rewritten or unwrapped, and the call
\* does not panic.
C2_RepeatedRewritten ==
    (tpc # "call" /\ IsSlice(tsrc)) =>
        /\ tpc = "returned"
        /\ tout = "repeated "
                  \o Replace(Replace(elemOf(tsrc), "interface{}", "google.protobuf.Value"),
                             "*", "")
        /\ (~Contains(tsrc, "*") /\ ~Contains(tsrc, "interface{}"))
              => tout = "repeated " \o elemOf(tsrc)

\* a slice of pointers went through the translator, and a nested slice did
C2_Witness ==
    /\ tpc = "returned"
    /\ \/ tsrc = "[]*Bar" /\ tout = "repeated Bar"
       \/ tsrc = "[][]int" /\ tout = "repeated []int"

(***************************************************************************)
(* Properties of the extractors and of the scan, under Spec.               *)
(***************************************************************************)
HasComment(decl, symbol) ==
    \E k \in 1..Len(decl.doc) : Contains(decl.doc[k], symbol)

\* the declaration the scan handled last
lastDecl == f.Decls[declIdx - 1]

\* the scan has handled a declaration and goes on
Scanned == pc = "scan" /\ declIdx > 1

\* one member per declared name of every field entry, in source order
RECURSIVE namedMembers(_, _)
namedMembers(names, type) ==
    IF names = <<>> THEN <<>>
    ELSE <<[Name |-> Head(names), Type |-> type]>> \o namedMembers(Tail(names), type)

RECURSIVE declaredMembers(_)
declaredMembers(fields) ==
    IF fields = <<>> THEN <<>>
    ELSE namedMembers(Head(fields).names, Head(fields).type)
         \o declaredMembers(Tail(fields))

\* C3: a marked struct declaration yields a descriptor named after the type
\* with one member per declared field name, in source order, each with the
\* verbatim type of its entry.
C3_OneMemberPerName ==
    (/\ Scanned
     /\ lastDecl.kind = "gen"
     /\ HasComment(lastDecl, msgSymbol)
     /\ Len(lastDecl.specs) = 1
     /\ lastDecl.specs[1].isType
     /\ lastDecl.specs[1].isStruct)
    => /\ lastDecl.specs[1].name \in DOMAIN msgs
       /\ msgs[lastDecl.specs[1].name] = declaredMembers(lastDecl.specs[1].fields)

\* the documentation of a declaration handed to an extractor lacks a marker
\* that the extractor requires
LacksMarker(decl) ==
    /\ decl.doc # <<>>
    /\ IF decl.kind = "gen" THEN ~HasComment(decl, msgSymbol)
       ELSE ~HasComment(decl, srvSymbol) \/ ~HasComment(decl, srvNameSymbol)

\* C4: a declaration whose documentation lacks a required marker gets the
\* absent result: the scan goes on without an error or a log line, and
\* neither the records nor the service groups change.
C4_AbsentWhenUnmarked ==
    [][(/\ pc = "scan"
        /\ declIdx <= Len(f.Decls)
        /\ LacksMarker(f.Decls[declIdx]))
       => (pc' = "scan" /\ msgs' = msgs /\ srvs' = srvs /\ log' = log)]_vars

\* the type texts of a list that contain the cross-boundary prefix
crossBoundary(types) == SelectSeq(types, LAMBDA t : Contains(t, srvParamSymbol))

firstCross(types) ==
    IF crossBoundary(types) = <<>> THEN ""
    ELSE TrimPrefix(Head(crossBoundary(types)), srvParamSymbol)

lastCross(types) ==
    IF crossBoundary(types) = <<>> THEN ""
    ELSE TrimPrefix(crossBoundary(types)[Len(crossBoundary(types))], srvParamSymbol)

\* the scan has just appended the procedure of lastDecl to group g
JustAdded(g) ==
    /\ Scanned
    /\ lastDecl.kind = "func"
    /\ HasComment(lastDecl, srvSymbol)
    /\ HasComment(lastDecl, srvNameSymbol)
    /\ g \in DOMAIN srvs
    /\ srvs[g][Len(srvs[g])].Name = lastDecl.name

AddedSomewhere ==
    (/\ Scanned
     /\ lastDecl.kind = "func"
     /\ HasComment(lastDecl, srvSymbol)
     /\ HasComment(lastDecl, srvNameSymbol))
    => \E g \in DOMAIN srvs : JustAdded(g)

scannedCount == IF declIdx - 1 > Len(f.Decls) THEN Len(f.Decls) ELSE declIdx - 1

\* what the extractor makes of declaration k when the scan hands it over
extractedSrv(k) ==
    IF f.Decls[k].kind = "func" /\ f.Decls[k].doc # <<>>
    THEN fetchSrv(f.Decls[k])
    ELSE [outcome |-> "absent", srv |-> NoSrv]

\* C6: the procedure list of every group is the subsequence of the extracted
\* procedures with that group name, in encounter order, and there are no
\* other groups.
C6_GroupsInEncounterOrder ==
    (~f.nil /\ pc # "example") =>
        LET got == [k \in 1..scannedCount |-> extractedSrv(k)]
            ok == SelectSeq([k \in 1..scannedCount |-> got[k]],
                            LAMBDA r : r.outcome = "ok")
        IN  /\ DOMAIN srvs = {ok[k].srv.Name : k \in 1..Len(ok)}
            /\ \A g \in DOMAIN srvs :
                  LET mine == SelectSeq(ok, LAMBDA r : r.srv.Name = g)
                  IN  srvs[g] = [k \in 1..Len(mine) |-> mine[k].srv.Funcs]

\* two functions of group Greeting and one of group Health were scanned
C6_Witness ==
    /\ pc = "scan"
    /\ DOMAIN srvs = {"Greeting", "Health"}
    /\ Len(srvs["Greeting"]) = 2
    /\ srvs["Greeting"][1].Name = "SayHello"
    /\ srvs["Greeting"][2].Name = "SayYa"
    /\ srvs["Health"] = <<[Name |-> "Ping", In |-> "Request", Out |-> "Reply"]>>

\* the expressions of fetchMsg and fetchSrv that can panic
ScanCrashes == {"typeSpec.Type.(StructType)", "funcDecl.Type.Results.List"}

\* C8: a marked declaration of an unexpected shape never aborts the run; the
\* scan logs it or skips it and goes on.
C8_MalformedDeclNeverAborts == ~(pc = "panic" /\ crash \in ScanCrashes)

(***************************************************************************)
(* Properties of the stages and of the rendered document, under Spec.      *)
(***************************************************************************)
\* C9 (reporting): a failed stage stops the pass for its input and is
\* reported: the process ends with the error instead of going on.
C9_FailuresSurfaced == failed # "" => pc \in {"fatal", "panic"}

\* C9 (order): after a failed stage no later stage has run: no document was
\* written, protoc was not run, the source file was not written.
C9_NoLaterStage ==
    /\ failed \in {"path", "parse", "declarations", "records", "procedures"}
          => protoFile = NoDocument /\ protocCalls = 0 /\ srcWrites = 0
    /\ failed = "document" => protocCalls = 0 /\ srcWrites = 0
    /\ failed = "compiler" => srcWrites = 0

\* C7 as claimed: the document has the import statement exactly when an
\* interface{} was replaced by google.protobuf.Value in a field type.
C7_ImportIffAnyValue ==
    protoFile.state = "written" => (Contains(protoFile.text, importLine) <=> anySubst)

\* C7 as amended: every rendered document has the import statement, once,
\* whether or not an interface{} was replaced in a field type.
C7_ImportAlways ==
    protoFile.state = "written" => Count(protoFile.text, importLine) = 1

\* a document of a model with records and procedures and no replaced
\* interface{} was rendered, with the import
C7_Witness ==
    /\ pc = "callProtoc"
    /\ protoFile.state = "written"
    /\ ~anySubst
    /\ Contains(protoFile.text, importLine)

\* the message block of record n in the document text
blockOf(text, n) ==
    LET from == Index(text, "\nmessage " \o n \o " {\n")
        rest == SubSeq(text, from, Len(text))
    IN  IF from = 0 THEN "" ELSE SubSeq(rest, 1, Index(rest, "\n}\n") + 2)

fieldLine(member, k) ==
    "\n  " \o member.Type \o " " \o member.Name \o " = " \o ToString(k) \o ";\n"

\* createProtoFile has just written the document of the model (msgs, srvs)
JustRendered == protoFile.state = "written" /\ pc \in {"callProtoc", "fatal"}

\* C10: every record has one message block, whose k-th field line carries
\* ordinal k, from 1 in every block and in declared order; with an empty
\* service map the same records render with no service block.
C10_OrdinalsFromOne ==
    JustRendered =>
        /\ Count(protoFile.text, "\nmessage ") = Cardinality(DOMAIN msgs)
        /\ \A n \in DOMAIN msgs :
              LET block == blockOf(protoFile.text, n)
              IN  /\ Count(protoFile.text, "\nmessage " \o n \o " {\n") = 1
                  /\ Count(block, ";\n") = Len(msgs[n])
                  /\ \A k \in 1..Len(msgs[n]) :
                        /\ Contains(block, fieldLine(msgs[n][k], k))
                        /\ k > 1 => Index(block, fieldLine(msgs[n][k - 1], k - 1))
                                    < Index(block, fieldLine(msgs[n][k], k))
        /\ Count(protoFile.text, "\nservice ") = Cardinality(DOMAIN srvs)
        /\ LET bare == executeTemplate(f.Name, msgs, EmptyMap)
           IN  /\ ~Contains(bare, "service ")
               /\ \A n \in DOMAIN msgs :
                     blockOf(bare, n) = blockOf(protoFile.text, n)

\* a document with two records was rendered: each block starts at ordinal 1
C10_Witness ==
    /\ JustRendered
    /\ DOMAIN msgs = {"Reply", "Request"}
    /\ Contains(blockOf(protoFile.text, "Reply"), "\n  string Name = 1;\n")
    /\ Contains(blockOf(protoFile.text, "Reply"), "\n  int32 Counter = 3;\n")
    /\ Contains(blockOf(protoFile.text, "Request"), "\n  string B = 1;\n")


(***************************************************************************)
(* Properties of the source rewrite, under Spec.                           *)
(***************************************************************************)
\* the number of lines of the file before declaration k
linesBefore(k) == Len(SourceLines(SubSeq(f.Decls, 1, k - 1)))

\* a declaration of a struct type that carries the message marker
IsMarkedRecord(decl) ==
    /\ decl.kind = "gen"
    /\ HasComment(decl, msgSymbol)
    /\ Len(decl.specs) = 1
    /\ decl.specs[1].isType
    /\ decl.specs[1].isStruct

\* the line of a declaration's text that holds the message marker
annotationLine(decl) ==
    CHOOSE m \in 1..Len(decl.src) :
        /\ Contains(decl.src[m], msgSymbol)
        /\ \A n \in 1..(m - 1) : ~Contains(decl.src[n], msgSymbol)

\* markMsgAsComment has written the file of this pass back
Rewritten == pc = "next" /\ srcWrites = 1

\* C11: after the rewrite every line of a marked record, from the annotation
\* line through the line of its closing brace, starts with "//", whatever
\* the field types; and where only records carry the marker, the lines of
\* all other declarations are unchanged.
C11_RecordFullyCommented ==
    Rewritten =>
        /\ Len(source) = Len(SourceLines(f.Decls))
        /\ \A k \in 1..Len(f.Decls) :
              IsMarkedRecord(f.Decls[k]) =>
                 \A m \in annotationLine(f.Decls[k])..Len(f.Decls[k].src) :
                    HasPrefix(source[linesBefore(k) + m], "//")
        /\ (\A k \in 1..Len(f.Decls) :
               (f.Decls[k].kind = "gen" /\ HasComment(f.Decls[k], msgSymbol))
                  => IsMarkedRecord(f.Decls[k]))
           => \A k \in 1..Len(f.Decls) :
                 ~IsMarkedRecord(f.Decls[k]) =>
                    \A m \in 1..Len(f.Decls[k].src) :
                       source[linesBefore(k) + m] = f.Decls[k].src[m]


(***************************************************************************)
(* markMsgAsComment run again and again on one file, for every file of up  *)
(* to MaxLines lines of LinePool.  srcWrites counts the completed runs.    *)
(***************************************************************************)
MaxLines == 4

MaxRuns == 2

\* lines of a source file: the annotation, the parts of a record, a comment
\* with a brace, and a code line that holds the marker text
LinePool ==
    {"// @grpcGen:Message", "type Reply struct {", "\tName string",
     "\tAny interface{}", "}", "// end }",
     "var usage = \"@grpcGen:Message\""}

InitRewrite ==
    /\ pc = "off"
    /\ inPath = "/go/src/app/greet.go"
    /\ outPath = ""
    /\ f = NilFile
    /\ declIdx = 0
    /\ msgs = EmptyMap
    /\ srvs = EmptyMap
    /\ log = <<>>
    /\ fatal = ""
    /\ crash = ""
    /\ failed = ""
    /\ protoFile = NoDocument
    /\ protocCalls = 0
    /\ source \in UNION {[1..n -> LinePool] : n \in 0..MaxLines}
    /\ srcWrites = 0
    /\ anySubst = FALSE
    /\ tpc = "off"
    /\ tsrc = ""
    /\ tmsgs = EmptyMap

\* one call markMsgAsComment(inPath) on the file as the last run left it
RunMarkMsgAsComment ==
    /\ pc = "off"
    /\ crash = ""
    /\ srcWrites < MaxRuns
    /\ \E io \in {"ok", "read", "write"} :
          LET r == markMsgAsComment(inPath, source, io)
          IN  /\ source' = r.lines
              /\ srcWrites' = IF r.written THEN srcWrites + 1 ELSE srcWrites
              /\ crash' = IF r.outcome = "panic" THEN "lines[j]" ELSE crash
    /\ UNCHANGED <<pc, inPath, outPath, f, declIdx, msgs, srvs, log, fatal,
                   failed, protoFile, protocCalls, anySubst, tvars>>

NextRewrite == RunMarkMsgAsComment

SpecRewrite == InitRewrite /\ [][NextRewrite]_vars

\* C12: markMsgAsComment is idempotent: run on a file that an earlier run
\* has written, it completes and leaves every line as it is.
C12_RewriteIdempotent ==
    [][srcWrites >= 1 => (crash' = "" /\ source' = source)]_vars

\* a second run has completed on a record that the first run commented
C12_Witness ==
    /\ srcWrites = 2
    /\ source = <<"// @grpcGen:Message", "// type Reply struct {",
                  "// \tName string", "// }">>

=============================================================================
